---- MODULE Spec2Model ----
(***************************************************************************)
(* Model of the deterministic timing and physics core of Game Engine X:    *)
(* the fixed-timestep GameLoop and Engine::update, the Timer calibration,  *)
(* FixedPoint arithmetic, PhysicsWorld::step, the narrow-phase tests, the   *)
(* contact solver and the two broad-phase structures.                      *)
(*                                                                         *)
(* Numbers.  The code computes in f64 (scheduler) and f32 (physics).  The  *)
(* model computes exactly, on integers: a time is a whole number of        *)
(* TimeUnits (1/120 s, so that 1/60 s and its half are whole),             *)
(* a velocity a whole number of length units per TimeUnit, an acceleration *)
(* of length units per TimeUnit^2.  Floating-point rounding is not         *)
(* modelled.  FixedPoint is modelled bit-exactly at a reduced width: the   *)
(* raw value has 2*FRAC_BITS bits and the intermediate 4*FRAC_BITS bits    *)
(* (16, 32 and 64 in the code).                                            *)
(***************************************************************************)
EXTENDS Integers, Sequences, FiniteSets, TLC

VARIABLES
    config,     \* EngineConfig handed to GameLoop::new and Engine::new
    gl,         \* GameLoop: last_time, accumulator, fixed_dt, max_frame_skip, frame, tick
    ft,         \* the FrameTick returned by the last tick()
    pending,    \* host loop: fixed updates of the last tick() still to run
    world,      \* the host's PhysicsWorld: config, bodies, contacts; ghosts sim_time
                \* (the dt integrated so far) and steps (the step() calls so far)
    engine,     \* Engine: accumulator, frame_count, physics; steps is a ghost
    body0,      \* ghost: the body as it was added to `world`
    elapsed_total, \* ghost: the sum of the deltas the tick() calls measured
    fp,         \* FixedPoint operands and the result of the last operation
    timer,      \* Timer: start_cycles, frequency_mhz; the last elapsed_ns outcome
    rc,         \* resolve_contacts: the bodies and contact list handed to it, the
                \* bodies as they were before the last pass (ghost), passes so far
    np,         \* narrow phase: two shapes and the result of the test applied
    sh,         \* SpatialHash: cell_size, cells; inserted is a ghost, the (id, aabb)
                \* handed to insert() since the last clear()
    sap,        \* SweepAndPrune: endpoints; shapes is a ghost, the list handed to
                \* the last update()
    phase,      \* position inside PhysicsWorld::step: pc is the phase to run next
                \* ("idle" outside step), substep and iteration the loop counters;
                \* start is a ghost, the world as the call found it
    ig,         \* the integrators called directly: bodies, prev_positions, dt; before
                \* (the bodies and prev_positions the last call found), op and steps
                \* are ghosts
    ecs         \* ecs::World: inner (the hecs store: live handles, handles issued),
                \* entity_count

vars == <<config, gl, ft, pending, world, engine, body0, elapsed_total, fp, timer,
          rc, np, sh, sap, phase, ig, ecs>>

loopVars == <<config, gl, ft, pending, engine, elapsed_total>>
physVars == <<world, body0>>
fpVars == <<fp>>
timerVars == <<timer>>
resolveVars == <<rc>>
narrowVars == <<np>>
hashVars == <<sh>>
sweepVars == <<sap>>
phaseVars == <<phase>>
integrateVars == <<ig>>
ecsVars == <<ecs>>
lateVars == <<ig, ecs>>
restVars == <<rc, np, sh, sap, phase, ig, ecs>>

----------------------------------------------------------------------------
(* Bounds of the model *)

MaxTime == 8         \* largest ordinary clock reading, in TimeUnits
MaxFrames == 3       \* tick() / update() calls explored per run
MaxSteps == 4        \* step() calls explored on a world stepped directly
FRAC_BITS == 3       \* FixedPoint fraction bits (16 in the code); raw width is twice that
MaxCycles == 4       \* largest cycle-counter reading
MaxNsSteps == 4      \* calibration sleeps of up to MaxNsSteps * NsGrain nanoseconds
MaxPasses == 2       \* resolve_contacts passes over one contact list
MaxOffset == 11      \* largest centre offset of the circle pairs tested
MaxShapes == 2       \* shapes inserted into a SpatialHash between two clear() calls
MaxWorldSteps == 2   \* step() calls followed phase by phase
MaxIntegrations == 3 \* direct calls of the integrators per run
MaxSpawns == 5       \* World::spawn calls per run

----------------------------------------------------------------------------
(* Small helpers *)

\* The larger of the two.
Larger(a, b) == IF a >= b THEN a ELSE b

Min(a, b) == IF a <= b THEN a ELSE b

Abs(a) == IF a < 0 THEN -a ELSE a

\* Division of the float code where the quotient is whole; truncates otherwise.
FDiv(a, b) ==
    LET q == Abs(a) \div Abs(b)
    IN  IF (a < 0) # (b < 0) THEN -q ELSE q

ISqrt(n) == CHOOSE r \in 0..n : r * r <= n /\ (r + 1) * (r + 1) > n

----------------------------------------------------------------------------
(* math/vec2.rs *)

Vec2(x, y) == [x |-> x, y |-> y]

ZERO == Vec2(0, 0)

UP == Vec2(0, -1)

VAdd(a, b) == Vec2(a.x + b.x, a.y + b.y)

VSub(a, b) == Vec2(a.x - b.x, a.y - b.y)

VScale(a, s) == Vec2(a.x * s, a.y * s)

VDivS(a, s) == Vec2(FDiv(a.x, s), FDiv(a.y, s))

Dot(a, b) == a.x * b.x + a.y * b.y

----------------------------------------------------------------------------
(* physics/mod.rs, physics/integration.rs, physics/collision.rs *)

SixtiethUnits == 2   \* 1.0 / 60.0 seconds, in TimeUnits

Radius == 10         \* the fixed radius of detect_collisions

DefaultGravityY == 980

DefaultIterations == 8

DefaultSubsteps == 1

PhysicsConfigDefault ==
    [gravity |-> Vec2(0, DefaultGravityY),
     iterations |-> DefaultIterations,
     substeps |-> DefaultSubsteps]

\* Body::new(position, mass) with the other fields as given; mass > 0
NewBody(position, velocity, restitution) ==
    [position |-> position, velocity |-> velocity, acceleration |-> ZERO,
     inv_mass |-> 1, restitution |-> restitution]

StaticBody(position, velocity, restitution) ==
    [position |-> position, velocity |-> velocity, acceleration |-> ZERO,
     inv_mass |-> 0, restitution |-> restitution]

IsStatic(b) == b.inv_mass = 0

WithConfig(cfg) ==
    [config |-> cfg, bodies |-> << >>, contacts |-> << >>,
     sim_time |-> 0, steps |-> 0]

PhysicsWorldNew == WithConfig(PhysicsConfigDefault)

AddBody(w, b) == [w EXCEPT !.bodies = Append(@, b)]

\* let dt = 1.0 / 60.0 / self.config.substeps
StepDt(w) == SixtiethUnits \div w.config.substeps

\* Gravity is assigned to every body.
ApplyGravityToAll(bodies, g) ==
    [i \in DOMAIN bodies |-> [bodies[i] EXCEPT !.acceleration = g]]

ApplyGravity(bodies, g) ==
    [i \in DOMAIN bodies |->
        IF ~IsStatic(bodies[i]) THEN [bodies[i] EXCEPT !.acceleration = g]
        ELSE bodies[i]]

\* The position is advanced before the velocity (explicit Euler).
IntegrateBodyExplicit(b, dt) ==
    IF IsStatic(b) THEN b
    ELSE [b EXCEPT !.position = VAdd(b.position, VScale(b.velocity, dt)),
                   !.velocity = VAdd(b.velocity, VScale(b.acceleration, dt)),
                   !.acceleration = ZERO]

\* The acceleration is left as it was.
IntegrateBodyKeepsAcceleration(b, dt) ==
    IF IsStatic(b) THEN b
    ELSE LET v == VAdd(b.velocity, VScale(b.acceleration, dt))
         IN  [b EXCEPT !.velocity = v,
                       !.position = VAdd(b.position, VScale(v, dt))]

\* One body of integrate_bodies_rust: semi-implicit Euler
IntegrateBody(b, dt) ==
    IF IsStatic(b) THEN b
    ELSE LET v == VAdd(b.velocity, VScale(b.acceleration, dt))
         IN  [b EXCEPT !.velocity = v,
                       !.position = VAdd(b.position, VScale(v, dt)),
                       !.acceleration = ZERO]

IntegrateBodies(bodies, dt) ==
    [i \in DOMAIN bodies |-> IntegrateBody(bodies[i], dt)]

\* One body of integrate_verlet and its prev_positions entry
VerletBody(b, prev, dt) ==
    IF IsStatic(b) THEN [body |-> b, prev |-> prev]
    ELSE LET temp == b.position
             velocity == VSub(b.position, prev)
         IN  [body |-> [b EXCEPT
                          !.position = VAdd(VAdd(b.position, velocity),
                                            VScale(b.acceleration, dt * dt)),
                          !.acceleration = ZERO],
              prev |-> temp]

\* integrate_verlet
IntegrateVerlet(bodies, prev_positions, dt) ==
    [bodies |-> [i \in DOMAIN bodies |->
                    VerletBody(bodies[i], prev_positions[i], dt).body],
     prev_positions |-> [i \in DOMAIN bodies |->
                            VerletBody(bodies[i], prev_positions[i], dt).prev]]

NoContact == [none |-> TRUE]

\* Circles that only touch count as colliding.
CircleVsCircleTouching(a, ra, b, rb) ==
    LET diff == VSub(b, a)
        dist_sq == Dot(diff, diff)
        radii_sum == ra + rb
    IN  IF dist_sq > radii_sum * radii_sum THEN NoContact
        ELSE LET dist == ISqrt(dist_sq)
                 normal == IF dist > 0 THEN VDivS(diff, dist) ELSE UP
             IN  [none |-> FALSE, body_a |-> 0, body_b |-> 0,
                  normal |-> normal,
                  penetration |-> radii_sum - dist,
                  point |-> VAdd(a, VScale(normal, ra))]

\* circle_vs_circle on centres a, b; body_a and body_b are filled in by the caller
CircleVsCircle(a, ra, b, rb) ==
    LET diff == VSub(b, a)
        dist_sq == Dot(diff, diff)
        radii_sum == ra + rb
    IN  IF dist_sq >= radii_sum * radii_sum THEN NoContact
        ELSE LET dist == ISqrt(dist_sq)
                 normal == IF dist > 0 THEN VDivS(diff, dist) ELSE UP
             IN  [none |-> FALSE, body_a |-> 0, body_b |-> 0,
                  normal |-> normal,
                  penetration |-> radii_sum - dist,
                  point |-> VAdd(a, VScale(normal, ra))]

AABB(min, max) == [min |-> min, max |-> max]

\* AABB::intersects: closed boxes, touching counts
Intersects(a, b) ==
    /\ a.min.x <= b.max.x /\ a.max.x >= b.min.x
    /\ a.min.y <= b.max.y /\ a.max.y >= b.min.y

\* (self.min + self.max) * 0.5
Center(a) == VDivS(VAdd(a.min, a.max), 2)

\* (self.max - self.min) * 0.5
HalfExtents(a) == VDivS(VSub(a.max, a.min), 2)

VAbs(a) == Vec2(Abs(a.x), Abs(a.y))

\* f32::signum: 1.0 for +0.0 and above, -1.0 below
Signum(x) == IF x >= 0 THEN 1 ELSE -1

\* Boxes that only touch count as colliding.
AabbVsAabbTouching(a, b) ==
    LET a_center == Center(a)
        b_center == Center(b)
        a_half == HalfExtents(a)
        b_half == HalfExtents(b)
        diff == VSub(b_center, a_center)
        overlap == VSub(VAdd(a_half, b_half), VAbs(diff))
    IN  IF overlap.x < 0 \/ overlap.y < 0 THEN NoContact
        ELSE LET x_axis == overlap.x < overlap.y
                 normal == IF x_axis THEN Vec2(Signum(diff.x), 0)
                           ELSE Vec2(0, Signum(diff.y))
             IN  [none |-> FALSE, body_a |-> 0, body_b |-> 0,
                  normal |-> normal,
                  penetration |-> IF x_axis THEN overlap.x ELSE overlap.y,
                  point |-> VAdd(a_center, VScale(normal, Min(a_half.x, a_half.y)))]

\* Equal overlaps resolve along X.
AabbVsAabbTieX(a, b) ==
    LET a_center == Center(a)
        b_center == Center(b)
        a_half == HalfExtents(a)
        b_half == HalfExtents(b)
        diff == VSub(b_center, a_center)
        overlap == VSub(VAdd(a_half, b_half), VAbs(diff))
    IN  IF overlap.x <= 0 \/ overlap.y <= 0 THEN NoContact
        ELSE LET x_axis == overlap.x <= overlap.y
                 normal == IF x_axis THEN Vec2(Signum(diff.x), 0)
                           ELSE Vec2(0, Signum(diff.y))
             IN  [none |-> FALSE, body_a |-> 0, body_b |-> 0,
                  normal |-> normal,
                  penetration |-> IF x_axis THEN overlap.x ELSE overlap.y,
                  point |-> VAdd(a_center, VScale(normal, Min(a_half.x, a_half.y)))]

\* aabb_vs_aabb
AabbVsAabb(a, b) ==
    LET a_center == Center(a)
        b_center == Center(b)
        a_half == HalfExtents(a)
        b_half == HalfExtents(b)
        diff == VSub(b_center, a_center)
        overlap == VSub(VAdd(a_half, b_half), VAbs(diff))
    IN  IF overlap.x <= 0 \/ overlap.y <= 0 THEN NoContact
        ELSE LET x_axis == overlap.x < overlap.y
                 normal == IF x_axis THEN Vec2(Signum(diff.x), 0)
                           ELSE Vec2(0, Signum(diff.y))
             IN  [none |-> FALSE, body_a |-> 0, body_b |-> 0,
                  normal |-> normal,
                  penetration |-> IF x_axis THEN overlap.x ELSE overlap.y,
                  point |-> VAdd(a_center, VScale(normal, Min(a_half.x, a_half.y)))]

\* The pairs (i, j), i < j, of 1..n from (i, j) on, in the order of the two loops
RECURSIVE PairsFrom(_, _, _)
PairsFrom(i, j, n) ==
    IF i >= n THEN << >>
    ELSE IF j > n THEN PairsFrom(i + 1, i + 2, n)
    ELSE << <<i, j>> >> \o PairsFrom(i, j + 1, n)

RECURSIVE DetectOver(_, _)
DetectOver(bodies, pairs) ==
    IF pairs = << >> THEN << >>
    ELSE LET i == Head(pairs)[1]
             j == Head(pairs)[2]
             c == CircleVsCircle(bodies[i].position, Radius,
                                 bodies[j].position, Radius)
             rest == DetectOver(bodies, Tail(pairs))
         IN  IF c.none THEN rest
             ELSE << [c EXCEPT !.body_a = i, !.body_b = j] >> \o rest

\* detect_collisions: what it pushes onto the (cleared) contact list.
\* Body indices are those of the sequence, 1-based (0-based in the code).
DetectCollisions(bodies) == DetectOver(bodies, PairsFrom(1, 2, Len(bodies)))

\* The two `continue` conditions of resolve_contacts
Skips(bodies, c) ==
    LET a == bodies[c.body_a]
        b == bodies[c.body_b]
    IN  \/ IsStatic(a) /\ IsStatic(b)
        \/ Dot(VSub(b.velocity, a.velocity), c.normal) > 0

\* The impulse and the correction of one contact
Respond(bodies, c, penetration) ==
    LET a == bodies[c.body_a]
        b == bodies[c.body_b]
        inv_sum == a.inv_mass + b.inv_mass
        vel_along_normal == Dot(VSub(b.velocity, a.velocity), c.normal)
        e == Min(a.restitution, b.restitution)
        j == FDiv(-(1 + e) * vel_along_normal, inv_sum)
        impulse == VScale(c.normal, j)
        correction == VScale(c.normal, FDiv(penetration * 4, 5 * inv_sum))
    IN  [bodies EXCEPT
           ![c.body_a] =
               [@ EXCEPT
                  !.velocity = VSub(@, VScale(impulse, a.inv_mass)),
                  !.position = VSub(@, VScale(correction, a.inv_mass))],
           ![c.body_b] =
               [@ EXCEPT
                  !.velocity = VAdd(@, VScale(impulse, b.inv_mass)),
                  !.position = VAdd(@, VScale(correction, b.inv_mass))]]

\* A separating pair is handled like an approaching one.
ResolveContactSeparatingToo(bodies, c) ==
    IF IsStatic(bodies[c.body_a]) /\ IsStatic(bodies[c.body_b]) THEN bodies
    ELSE Respond(bodies, c, c.penetration)

\* The correction is the whole penetration (the factor 0.8 becomes 1.0:
\* Respond multiplies by 4/5).
ResolveContactFullCorrection(bodies, c) ==
    IF Skips(bodies, c) THEN bodies
    ELSE Respond(bodies, c, FDiv(c.penetration * 5, 4))

\* The penetration is measured again from the positions at each pass.
ResolveContactRemeasured(bodies, c) ==
    IF Skips(bodies, c) THEN bodies
    ELSE Respond(bodies, c,
                 2 * Radius - Abs(Dot(VSub(bodies[c.body_b].position,
                                           bodies[c.body_a].position), c.normal)))

\* One contact of resolve_contacts
ResolveContact(bodies, c) ==
    LET a == bodies[c.body_a]
        b == bodies[c.body_b]
        inv_sum == a.inv_mass + b.inv_mass
        vel_along_normal == Dot(VSub(b.velocity, a.velocity), c.normal)
    IN  IF IsStatic(a) /\ IsStatic(b) THEN bodies
        ELSE IF vel_along_normal > 0 THEN bodies
        ELSE LET e == Min(a.restitution, b.restitution)
                 j == FDiv(-(1 + e) * vel_along_normal, inv_sum)
                 impulse == VScale(c.normal, j)
                 \* penetration * 0.8 / (a_inv_mass + b_inv_mass)
                 correction == VScale(c.normal, FDiv(c.penetration * 4, 5 * inv_sum))
             IN  [bodies EXCEPT
                    ![c.body_a] =
                        [@ EXCEPT
                           !.velocity = VSub(@, VScale(impulse, a.inv_mass)),
                           !.position = VSub(@, VScale(correction, a.inv_mass))],
                    ![c.body_b] =
                        [@ EXCEPT
                           !.velocity = VAdd(@, VScale(impulse, b.inv_mass)),
                           !.position = VAdd(@, VScale(correction, b.inv_mass))]]

RECURSIVE ResolveContacts(_, _)
ResolveContacts(bodies, contacts) ==
    IF contacts = << >> THEN bodies
    ELSE ResolveContacts(ResolveContact(bodies, Head(contacts)), Tail(contacts))

\* for _ in 0..self.config.iterations { resolve_contacts(..) }
RECURSIVE Solve(_, _, _)
Solve(bodies, contacts, iterations) ==
    IF iterations = 0 THEN bodies
    ELSE Solve(ResolveContacts(bodies, contacts), contacts, iterations - 1)

\* One pass of the sub-step loop of PhysicsWorld::step
SubStep(w, dt) ==
    LET accelerated == ApplyGravity(w.bodies, w.config.gravity)
        integrated == IntegrateBodies(accelerated, dt)
        contacts == DetectCollisions(integrated)
    IN  [w EXCEPT !.bodies = Solve(integrated, contacts, w.config.iterations),
                  !.contacts = contacts,
                  !.sim_time = @ + dt]

RECURSIVE SubSteps(_, _, _)
SubSteps(w, dt, n) ==
    IF n = 0 THEN w ELSE SubSteps(SubStep(w, dt), dt, n - 1)

\* PhysicsWorld::step
StepWorld(w) ==
    [SubSteps(w, StepDt(w), w.config.substeps) EXCEPT !.steps = @ + 1]

RECURSIVE StepTimes(_, _)
StepTimes(w, n) == IF n = 0 THEN w ELSE StepTimes(StepWorld(w), n - 1)

----------------------------------------------------------------------------
(* physics/broad_phase.rs *)

NoCells == [k \in {} |-> << >>]

\* SpatialHash::new(cell_size)
SpatialHashNew(cell_size) ==
    [cell_size |-> cell_size, cells |-> NoCells, inserted |-> << >>]

\* SpatialHash::clear
SpatialClear(h) == [h EXCEPT !.cells = NoCells, !.inserted = << >>]

\* SpatialHash::hash: ((pos.x * inv_cell_size).floor(), (pos.y * inv_cell_size).floor())
Hash(h, pos) == <<pos.x \div h.cell_size, pos.y \div h.cell_size>>

\* the cells the two loops of insert() visit
CellRange(h, aabb) ==
    LET min_cell == Hash(h, aabb.min)
        max_cell == Hash(h, aabb.max)
    IN  {<<x, y>> : x \in min_cell[1]..max_cell[1], y \in min_cell[2]..max_cell[2]}

\* The id goes into the cell of the min corner only.
SpatialInsertMinCell(h, id, aabb) ==
    LET cell == Hash(h, aabb.min)
    IN  [h EXCEPT
           !.cells = [k \in DOMAIN h.cells \cup {cell} |->
                         IF k = cell
                         THEN Append(IF k \in DOMAIN h.cells THEN h.cells[k] ELSE << >>, id)
                         ELSE h.cells[k]],
           !.inserted = Append(@, <<id, aabb>>)]

\* SpatialHash::insert
SpatialInsert(h, id, aabb) ==
    LET range == CellRange(h, aabb)
    IN  [h EXCEPT
           !.cells = [k \in DOMAIN h.cells \cup range |->
                         IF k \in range
                         THEN Append(IF k \in DOMAIN h.cells THEN h.cells[k] ELSE << >>, id)
                         ELSE h.cells[k]],
           !.inserted = Append(@, <<id, aabb>>)]

\* the pairs one cell contributes: (min, max) of ids[i], ids[j] for i < j
CellPairs(ids) ==
    LET ij == PairsFrom(1, 2, Len(ids))
    IN  [k \in 1..Len(ij) |->
            LET p == ids[ij[k][1]]
                q == ids[ij[k][2]]
            IN  IF p <= q THEN <<p, q>> ELSE <<q, p>>]

\* for ids in self.cells.values(): the values are visited in some order
RECURSIVE CollectPairs(_, _)
CollectPairs(cells, keys) ==
    IF keys = {} THEN << >>
    ELSE LET k == CHOOSE c \in keys : TRUE
         IN  CellPairs(cells[k]) \o CollectPairs(cells, keys \ {k})

PairLeq(p, q) == p[1] < q[1] \/ (p[1] = q[1] /\ p[2] <= q[2])

RECURSIVE InsertSorted(_, _)
InsertSorted(p, sorted) ==
    IF sorted = << >> THEN <<p>>
    ELSE IF PairLeq(p, Head(sorted)) THEN <<p>> \o sorted
    ELSE <<Head(sorted)>> \o InsertSorted(p, Tail(sorted))

\* pairs.sort_unstable()
RECURSIVE SortPairs(_)
SortPairs(pairs) ==
    IF pairs = << >> THEN << >>
    ELSE InsertSorted(Head(pairs), SortPairs(Tail(pairs)))

\* pairs.dedup(): consecutive equal elements collapse into one
RECURSIVE Dedup(_)
Dedup(pairs) ==
    IF Len(pairs) <= 1 THEN pairs
    ELSE IF pairs[1] = pairs[2] THEN Dedup(Tail(pairs))
    ELSE <<Head(pairs)>> \o Dedup(Tail(pairs))

\* The pairs are sorted but left as collected, one per shared cell.
SpatialGetPairsNoDedup(h) == SortPairs(CollectPairs(h.cells, DOMAIN h.cells))

\* SpatialHash::get_pairs
SpatialGetPairs(h) == Dedup(SortPairs(CollectPairs(h.cells, DOMAIN h.cells)))

\* result.sort_unstable(); result.dedup(): the ids of a set in ascending order
RECURSIVE Ascending(_)
Ascending(ids) ==
    IF ids = {} THEN << >>
    ELSE LET least == CHOOSE i \in ids : \A k \in ids : i <= k
         IN  <<least>> \o Ascending(ids \ {least})

\* SpatialHash::query
SpatialQuery(h, aabb) ==
    LET found == CellRange(h, aabb) \cap DOMAIN h.cells
    IN  Ascending(UNION {{h.cells[c][m] : m \in DOMAIN h.cells[c]} : c \in found})

\* SweepAndPrune::new
SweepAndPruneNew == [endpoints |-> << >>, shapes |-> << >>]

Endpoint(value, id, is_min) == [value |-> value, id |-> id, is_min |-> is_min]

\* the endpoints pushed for the shapes, in the order of the list
RECURSIVE PushEndpoints(_)
PushEndpoints(aabbs) ==
    IF aabbs = << >> THEN << >>
    ELSE LET id == Head(aabbs)[1]
             aabb == Head(aabbs)[2]
         IN  <<Endpoint(aabb.min.x, id, TRUE), Endpoint(aabb.max.x, id, FALSE)>>
                 \o PushEndpoints(Tail(aabbs))

\* e placed behind every endpoint of `sorted` whose value is not greater
RECURSIVE InsertStable(_, _)
InsertStable(e, sorted) ==
    IF sorted = << >> THEN <<e>>
    ELSE IF Head(sorted).value > e.value THEN <<e>> \o sorted
    ELSE <<Head(sorted)>> \o InsertStable(e, Tail(sorted))

\* endpoints.sort_by(|a, b| a.value.partial_cmp(&b.value).unwrap()): a stable
\* sort on the value alone; the first n endpoints, sorted
RECURSIVE SortByValue(_, _)
SortByValue(endpoints, n) ==
    IF n = 0 THEN << >>
    ELSE InsertStable(endpoints[n], SortByValue(endpoints, n - 1))

\* SweepAndPrune::update
SapUpdate(aabbs) ==
    LET pushed == PushEndpoints(aabbs)
    IN  [endpoints |-> SortByValue(pushed, Len(pushed)), shapes |-> aabbs]

\* active.iter().position(|&id| id == endpoint.id); 0 for None
Position(active, id) ==
    IF \E k \in 1..Len(active) : active[k] = id
    THEN CHOOSE k \in 1..Len(active) :
            active[k] = id /\ \A m \in 1..(k - 1) : active[m] # id
    ELSE 0

\* Vec::swap_remove: the last element takes the place of the one removed
SwapRemove(active, pos) ==
    [k \in 1..(Len(active) - 1) |-> IF k = pos THEN active[Len(active)] ELSE active[k]]

\* the pairs pushed for a min endpoint: one per active id, in the order of `active`
PairsWithActive(active, id) ==
    [k \in 1..Len(active) |->
        IF id <= active[k] THEN <<id, active[k]>> ELSE <<active[k], id>>]

RECURSIVE Sweep(_, _)
Sweep(endpoints, active) ==
    IF endpoints = << >> THEN << >>
    ELSE LET e == Head(endpoints)
         IN  IF e.is_min
             THEN PairsWithActive(active, e.id)
                      \o Sweep(Tail(endpoints), Append(active, e.id))
             ELSE LET pos == Position(active, e.id)
                  IN  Sweep(Tail(endpoints),
                            IF pos > 0 THEN SwapRemove(active, pos) ELSE active)

\* SweepAndPrune::get_pairs
SapGetPairs(p) == Sweep(p.endpoints, << >>)

----------------------------------------------------------------------------
(* core/game_loop.rs and lib.rs *)

\* EngineConfig::default(): fixed_timestep 1/60 s, max_frame_skip 5
DefaultMaxFrameSkip == 5

FixedDtChoices == {-SixtiethUnits, 0, 1, SixtiethUnits, 2 * SixtiethUnits}

CapChoices == {1, 2, DefaultMaxFrameSkip}

SubstepChoices == {1, 2}

TenSeconds == 600 * SixtiethUnits

\* What Timer::elapsed_ns may report to a tick(): any reading, also an earlier one
ClockReadings == (0..MaxTime) \cup {TenSeconds}

\* GameLoop::new: the configuration is taken as it is
GameLoopNew(cfg) ==
    [last_time |-> 0, accumulator |-> 0,
     fixed_dt |-> cfg.fixed_timestep, max_frame_skip |-> cfg.max_frame_skip,
     frame |-> 0, tick |-> 0]

\* Engine::new; steps (ghost) counts the fixed updates of the last update()
EngineNew(cfg) ==
    [config |-> cfg, physics |-> PhysicsWorldNew,
     accumulator |-> 0, frame_count |-> 0, steps |-> 0]

NoFrameTick ==
    [frame |-> 0, tick |-> 0, fixed_updates |-> 0, delta |-> 0, fixed_dt |-> 0,
     interpolation |-> <<0, 0>>]

\* The cap is tested with <= : one update too many.
RECURSIVE CountUpdatesOffByOne(_, _, _, _)
CountUpdatesOffByOne(accumulator, fixed_dt, max_frame_skip, updates) ==
    IF accumulator >= fixed_dt /\ updates <= max_frame_skip
    THEN CountUpdatesOffByOne(accumulator - fixed_dt, fixed_dt, max_frame_skip,
                              updates + 1)
    ELSE <<accumulator, updates>>

\* The whole steps left in the accumulator when the loop ends are discarded.
RECURSIVE CountUpdatesDropExcess(_, _, _, _)
CountUpdatesDropExcess(accumulator, fixed_dt, max_frame_skip, updates) ==
    IF accumulator >= fixed_dt /\ updates < max_frame_skip
    THEN CountUpdatesDropExcess(accumulator - fixed_dt, fixed_dt, max_frame_skip,
                                updates + 1)
    ELSE <<IF fixed_dt > 0 THEN accumulator % fixed_dt ELSE accumulator, updates>>

\* while accumulator >= fixed_dt && updates < max_frame_skip { .. }:
\* the accumulator and the update count it ends with
RECURSIVE CountUpdates(_, _, _, _)
CountUpdates(accumulator, fixed_dt, max_frame_skip, updates) ==
    IF accumulator >= fixed_dt /\ updates < max_frame_skip
    THEN CountUpdates(accumulator - fixed_dt, fixed_dt, max_frame_skip, updates + 1)
    ELSE <<accumulator, updates>>

\* current_time.saturating_sub(self.last_time)
SaturatingSub(a, b) == IF a >= b THEN a - b ELSE 0

\* GameLoop::tick with the timer reading current_time
\* The frame and tick reported are those before the call.
FrameTickOfStale(before, after) ==
    [frame |-> before.frame, tick |-> before.tick,
     fixed_updates |-> after.tick - before.tick,
     delta |-> SaturatingSub(after.last_time, before.last_time),
     fixed_dt |-> after.fixed_dt,
     interpolation |-> <<after.accumulator, after.fixed_dt>>]

\* Engine::update drops what the cap leaves in the accumulator.
EngineUpdateOfDropExcess(e, dt) ==
    LET counted == CountUpdatesDropExcess(e.accumulator + dt, e.config.fixed_timestep,
                                          e.config.max_frame_skip, 0)
    IN  [e EXCEPT !.accumulator = counted[1],
                  !.physics = StepTimes(@, counted[2]),
                  !.steps = counted[2],
                  !.frame_count = @ + 1]

GameLoopTick(g, current_time) ==
    LET delta == SaturatingSub(current_time, g.last_time)
        counted == CountUpdates(g.accumulator + delta, g.fixed_dt,
                                g.max_frame_skip, 0)
    IN  [g EXCEPT !.last_time = current_time,
                  !.accumulator = counted[1],
                  !.tick = @ + counted[2],
                  !.frame = @ + 1]

\* The FrameTick that tick() returns; interpolation is the pair
\* <<accumulator, fixed_dt>> whose quotient the code returns
FrameTickOf(before, after) ==
    [frame |-> after.frame, tick |-> after.tick,
     fixed_updates |-> after.tick - before.tick,
     delta |-> SaturatingSub(after.last_time, before.last_time),
     fixed_dt |-> after.fixed_dt,
     interpolation |-> <<after.accumulator, after.fixed_dt>>]

\* Engine::update(dt): one physics step per counted update
EngineUpdateOf(e, dt) ==
    LET counted == CountUpdates(e.accumulator + dt, e.config.fixed_timestep,
                                e.config.max_frame_skip, 0)
    IN  [e EXCEPT !.accumulator = counted[1],
                  !.physics = StepTimes(@, counted[2]),
                  !.steps = counted[2],
                  !.frame_count = @ + 1]

----------------------------------------------------------------------------
(* math/fixed_point.rs, at raw width 2 * FRAC_BITS *)

RawBits == 2 * FRAC_BITS

WideBits == 2 * RawBits

SCALE == 2 ^ FRAC_BITS

RawMin == -(2 ^ (RawBits - 1))

RawMax == 2 ^ (RawBits - 1) - 1

RawPatterns == RawMin..RawMax

\* The two's-complement value of the low `bits` bits of x (an `as` cast, a wrapping op)
WrapTo(x, bits) == ((x + 2 ^ (bits - 1)) % 2 ^ bits) - 2 ^ (bits - 1)

FpZERO == 0

FpONE == SCALE

\* A result: the raw value, or a panic
Value(raw) == [raw |-> raw, panic |-> FALSE]

Panic == [raw |-> 0, panic |-> TRUE]

\* The sum clamps at the ends of the range instead of wrapping.
FpAddSaturating(a, b) ==
    IF a + b > RawMax THEN RawMax ELSE IF a + b < RawMin THEN RawMin ELSE a + b

\* Add: self.0.wrapping_add(other.0)
FpAdd(a, b) == WrapTo(a + b, RawBits)

\* Sub: self.0.wrapping_sub(other.0)
FpSub(a, b) == WrapTo(a - b, RawBits)

\* >> on a signed integer: floor division by 2^n
ShiftRight(x, n) == x \div (2 ^ n)

\* mul_full: (self.0 as i64 * other.0 as i64) >> FRAC_BITS, then `as i32`
FpMulFull(a, b) == WrapTo(ShiftRight(WrapTo(a * b, WideBits), FRAC_BITS), RawBits)

\* The quotient rounds down instead of toward zero.
FpDivFullFloor(a, b) ==
    IF b = 0 THEN FpZERO ELSE WrapTo((a * SCALE) \div b, RawBits)

\* div_full: zero for a zero divisor, else ((self.0 as i64) << FRAC_BITS) / other.0
\* (the integer division of Rust truncates toward zero), then `as i32`
FpDivFull(a, b) ==
    IF b = 0 THEN FpZERO
    ELSE WrapTo(FDiv(WrapTo(a * SCALE, WideBits), b), RawBits)

\* Neg: -self.0.  The negation of the minimum overflows: a build with overflow
\* checks panics, one without wraps.  Both outcomes are returned.
FpNeg(a) ==
    IF a = RawMin THEN {Panic, Value(WrapTo(-a, RawBits))} ELSE {Value(-a)}

----------------------------------------------------------------------------
(* core/timing.rs, portable path *)

CyclesScale == 1000

DefaultFrequencyMhz == 3000

NsGrain == CyclesScale \div 2

CycleReadings == 0..MaxCycles

NsReadings == {k * NsGrain : k \in 0..MaxNsSteps}

\* estimate_frequency, given the cycle difference and the nanoseconds measured
EstimateFrequency(cycles, ns) ==
    IF ns > 0 THEN (cycles * CyclesScale) \div ns ELSE DefaultFrequencyMhz

\* Timer::new with that calibration outcome
TimerNew(cycles, ns) ==
    [start_cycles |-> 0, frequency_mhz |-> EstimateFrequency(cycles, ns),
     elapsed |-> Value(0)]

\* cycles_to_ns (cfg(no_asm)): (cycles * 1000) / self.frequency_mhz
CyclesToNs(t, cycles) ==
    IF t.frequency_mhz = 0 THEN Panic
    ELSE Value((cycles * CyclesScale) \div t.frequency_mhz)

\* elapsed_ns with the counter reading end_cycles
ElapsedNsOf(t, end_cycles) == CyclesToNs(t, SaturatingSub(end_cycles, t.start_cycles))

----------------------------------------------------------------------------
(* ecs/mod.rs.  The hecs store is modelled by what the wrapper relies on:  *)
(* spawn issues a handle never issued before, despawn removes a live       *)
(* handle and fails with NoSuchEntity on any other, clear removes all.     *)

HecsWorldNew == [live |-> {}, issued |-> 0]

HecsSpawn(h) == [live |-> h.live \cup {h.issued + 1}, issued |-> h.issued + 1]

HecsDespawn(h, entity) == [h EXCEPT !.live = @ \ {entity}]

HecsClear(h) == [h EXCEPT !.live = {}]

\* World::new
EcsWorldNew == [inner |-> HecsWorldNew, entity_count |-> 0]

\* World::spawn
EcsSpawn(w) ==
    [inner |-> HecsSpawn(w.inner), entity_count |-> w.entity_count + 1]

\* World::despawn
EcsDespawn(w, entity) ==
    [inner |-> HecsDespawn(w.inner, entity),
     entity_count |-> SaturatingSub(w.entity_count, 1)]

\* World::clear
EcsClear(w) == [inner |-> HecsClear(w.inner), entity_count |-> 0]

\* World::entity_count
EntityCount(w) == w.entity_count

----------------------------------------------------------------------------
(* States of the parts a specification leaves alone *)

EngineConfigDefault ==
    [fixed_timestep |-> SixtiethUnits, max_frame_skip |-> DefaultMaxFrameSkip]

IdleLoop ==
    /\ config = EngineConfigDefault
    /\ gl = GameLoopNew(EngineConfigDefault)
    /\ ft = NoFrameTick
    /\ pending = 0
    /\ engine = EngineNew(EngineConfigDefault)
    /\ elapsed_total = 0

IdlePhysics ==
    /\ world = PhysicsWorldNew
    /\ body0 = NewBody(ZERO, ZERO, 0)

IdleFixed == fp = [a |-> 0, b |-> 0, op |-> "none", result |-> Value(0)]

IdleTimer == timer = TimerNew(0, 0)

IdleResolve == rc = [bodies |-> << >>, contacts |-> << >>, before |-> << >>, passes |-> 0,
                      start |-> << >>, resolved |-> 0]

IdleNarrow == np = [kind |-> "none", a |-> ZERO, b |-> ZERO,
                    applied |-> FALSE, result |-> NoContact]

IdleHash == sh = SpatialHashNew(1)

IdleSweep == sap = SweepAndPruneNew

IdlePhase ==
    phase = [pc |-> "idle", substep |-> 0, iteration |-> 0, start |-> PhysicsWorldNew]

IdleIntegrate ==
    ig = [bodies |-> << >>, prev_positions |-> << >>, dt |-> SixtiethUnits,
          before |-> [bodies |-> << >>, prev_positions |-> << >>],
          op |-> "none", steps |-> 0]

IdleEcs == ecs = EcsWorldNew

IdleLate ==
    /\ IdleIntegrate
    /\ IdleEcs

IdleRest ==
    /\ IdleResolve
    /\ IdleNarrow
    /\ IdleHash
    /\ IdleSweep
    /\ IdlePhase
    /\ IdleLate

----------------------------------------------------------------------------
(* The scheduler: a host loop around GameLoop::tick and PhysicsWorld::step   *)
(* (games/physics_2d/game.rs), and an Engine handed the measured deltas      *)

HostBody == NewBody(ZERO, Vec2(1, 0), 1)

HostWorlds ==
    {AddBody(WithConfig([gravity |-> Vec2(0, 1), iterations |-> DefaultIterations,
                         substeps |-> s]), HostBody) : s \in SubstepChoices}

InitLoop ==
    /\ config \in [fixed_timestep : FixedDtChoices, max_frame_skip : CapChoices]
    /\ gl = GameLoopNew(config)
    /\ engine = EngineNew(config)
    /\ ft = NoFrameTick
    /\ pending = 0
    /\ elapsed_total = 0
    /\ world \in HostWorlds
    /\ body0 = HostBody
    /\ IdleFixed
    /\ IdleTimer
    /\ IdleRest

\* let tick = self.game_loop.tick();
Tick(current_time) ==
    /\ pending = 0
    /\ engine.frame_count = gl.frame
    /\ gl.frame < MaxFrames
    /\ gl' = GameLoopTick(gl, current_time)
    /\ ft' = FrameTickOf(gl, gl')
    /\ pending' = ft'.fixed_updates
    /\ elapsed_total' = elapsed_total + ft'.delta
    /\ UNCHANGED <<config, engine, physVars, fpVars, timerVars, restVars>>

\* for _ in 0..tick.fixed_updates { self.fixed_update(..) }: one pass
HostFixedUpdate ==
    /\ pending > 0
    /\ world' = StepWorld(world)
    /\ pending' = pending - 1
    /\ UNCHANGED <<config, gl, ft, engine, elapsed_total, body0, fpVars, timerVars, restVars>>

\* engine.update(tick.delta)
EngineUpdate ==
    /\ pending = 0
    /\ engine.frame_count < gl.frame
    /\ engine' = EngineUpdateOf(engine, ft.delta)
    /\ UNCHANGED <<config, gl, ft, pending, elapsed_total, physVars, fpVars, timerVars, restVars>>

NextLoop ==
    \/ \E current_time \in ClockReadings : Tick(current_time)
    \/ HostFixedUpdate
    \/ EngineUpdate

SpecLoop == InitLoop /\ [][NextLoop]_vars

----------------------------------------------------------------------------
(* A world holding a single body, stepped directly *)

GravityChoices == {Vec2(gx, gy) : gx \in {0, 1}, gy \in {-1, 0, 2}}

VelocityChoices == {ZERO, Vec2(1, -2)}

PositionChoices == {ZERO, Vec2(3, 4)}

IterationChoices == {1, DefaultIterations}

BodyChoices ==
    {NewBody(p, v, 1) : p \in PositionChoices, v \in VelocityChoices}
    \cup {StaticBody(p, v, 1) : p \in PositionChoices, v \in VelocityChoices}

InitPhysics ==
    /\ body0 \in BodyChoices
    /\ \E g \in GravityChoices, i \in IterationChoices, s \in SubstepChoices :
          world = AddBody(WithConfig([gravity |-> g, iterations |-> i,
                                      substeps |-> s]), body0)
    /\ IdleLoop
    /\ IdleFixed
    /\ IdleTimer
    /\ IdleRest

\* world.step()
Step ==
    /\ world.steps < MaxSteps
    /\ world' = StepWorld(world)
    /\ UNCHANGED <<loopVars, body0, fpVars, timerVars, restVars>>

AccelerationChoices == {Vec2(1, 0), Vec2(0, -3)}

\* The host accumulates an external acceleration on the body before a step:
\* world.bodies[0].acceleration += a (the field is public)
Accelerate(a) ==
    /\ world.steps < MaxSteps
    /\ world.bodies[1].acceleration = ZERO
    /\ world' = [world EXCEPT !.bodies[1].acceleration = VAdd(@, a)]
    /\ UNCHANGED <<loopVars, body0, fpVars, timerVars, restVars>>

NextPhysics ==
    \/ Step
    \/ \E a \in AccelerationChoices : Accelerate(a)

SpecPhysics == InitPhysics /\ [][NextPhysics]_vars

----------------------------------------------------------------------------
(* resolve_contacts applied to two bodies and one contact between them.    *)
(* Speeds are multiples of SpeedGrain and penetrations of DepthGrain, so   *)
(* that every quotient of the pass is whole.                               *)

SpeedGrain == 12

DepthGrain == 15

ResolveVelocities ==
    {ZERO, Vec2(SpeedGrain, 0), Vec2(-SpeedGrain, 0),
     Vec2(0, SpeedGrain), Vec2(0, -SpeedGrain)}

\* 1.0 / mass for the masses 1.0 and 0.5, and 0.0 for a static body
InvMassChoices == {0, 1, 2}

RestitutionChoices == {0, 1}

ResolveBodies(position) ==
    {[NewBody(position, v, e) EXCEPT !.inv_mass = m] :
        v \in ResolveVelocities, e \in RestitutionChoices, m \in InvMassChoices}

NormalChoices == {Vec2(1, 0), Vec2(0, 1), UP}

ResolveContactChoices ==
    {[none |-> FALSE, body_a |-> 1, body_b |-> 2, normal |-> n,
      penetration |-> d, point |-> ZERO] :
        n \in NormalChoices, d \in {DepthGrain, 2 * DepthGrain}}

InitResolve ==
    /\ \E a \in ResolveBodies(ZERO), b \in ResolveBodies(Vec2(5, 0)),
          c \in ResolveContactChoices :
          rc = [bodies |-> <<a, b>>, contacts |-> <<c>>,
                before |-> <<a, b>>, passes |-> 0,
                start |-> <<a, b>>, resolved |-> 0]
    /\ IdleLoop
    /\ IdlePhysics
    /\ IdleFixed
    /\ IdleTimer
    /\ IdleNarrow
    /\ IdleHash
    /\ IdleSweep
    /\ IdlePhase
    /\ IdleLate

\* resolve_contacts(&mut bodies, &contacts): one pass
ResolvePass ==
    /\ rc.passes < MaxPasses
    /\ rc' = [rc EXCEPT !.bodies = ResolveContacts(rc.bodies, rc.contacts),
                        !.before = rc.bodies,
                        !.passes = @ + 1,
                        !.resolved = IF Skips(rc.bodies, rc.contacts[1])
                                     THEN @ ELSE @ + 1]
    /\ UNCHANGED <<loopVars, physVars, fpVars, timerVars, narrowVars, hashVars, sweepVars,
                   phaseVars, lateVars>>

NextResolve == ResolvePass

SpecResolve == InitResolve /\ [][NextResolve]_vars

----------------------------------------------------------------------------
(* The narrow-phase tests applied to one pair of shapes.  Circle centres    *)
(* differ along one axis and box corners are even, so that the square root *)
(* and the halvings are whole.                                             *)

Circle(center, radius) == [center |-> center, radius |-> radius]

RadiusChoices == {0, 1, 5}

AxisOffsets ==
    {Vec2(d, 0) : d \in -MaxOffset..MaxOffset}
    \cup {Vec2(0, d) : d \in -MaxOffset..MaxOffset}

CirclePairs ==
    {<<Circle(c, ra), Circle(VAdd(c, o), rb)>> :
        c \in {ZERO, Vec2(-3, 4)}, ra \in RadiusChoices, rb \in RadiusChoices,
        o \in AxisOffsets}

BoxCoords == {-4, -2, 0, 2, 4, 6}

\* well-formed boxes: min <= max on both axes
Boxes ==
    {AABB(Vec2(c[1], c[2]), Vec2(c[3], c[4])) :
        c \in {c \in BoxCoords \X BoxCoords \X BoxCoords \X BoxCoords :
                  c[1] <= c[3] /\ c[2] <= c[4]}}

FirstBoxes ==
    {AABB(ZERO, Vec2(4, 4)), AABB(Vec2(0, -2), Vec2(2, 6)), AABB(Vec2(-2, 0), Vec2(2, 0))}

InitNarrow ==
    /\ \/ \E p \in CirclePairs :
             np = [kind |-> "circle", a |-> p[1], b |-> p[2],
                   applied |-> FALSE, result |-> NoContact]
       \/ \E a \in FirstBoxes, b \in Boxes :
             np = [kind |-> "aabb", a |-> a, b |-> b,
                   applied |-> FALSE, result |-> NoContact]
    /\ IdleLoop
    /\ IdlePhysics
    /\ IdleFixed
    /\ IdleTimer
    /\ IdleResolve
    /\ IdleHash
    /\ IdleSweep
    /\ IdlePhase
    /\ IdleLate

\* circle_vs_circle(&a, &b)
ApplyCircle ==
    /\ np.kind = "circle"
    /\ ~np.applied
    /\ np' = [np EXCEPT !.applied = TRUE,
                        !.result = CircleVsCircle(np.a.center, np.a.radius,
                                                  np.b.center, np.b.radius)]
    /\ UNCHANGED <<loopVars, physVars, fpVars, timerVars, resolveVars, hashVars, sweepVars,
                   phaseVars, lateVars>>

\* aabb_vs_aabb(&a, &b)
ApplyAabb ==
    /\ np.kind = "aabb"
    /\ ~np.applied
    /\ np' = [np EXCEPT !.applied = TRUE, !.result = AabbVsAabb(np.a, np.b)]
    /\ UNCHANGED <<loopVars, physVars, fpVars, timerVars, resolveVars, hashVars, sweepVars,
                   phaseVars, lateVars>>

NextNarrow ==
    \/ ApplyCircle
    \/ ApplyAabb

SpecNarrow == InitNarrow /\ [][NextNarrow]_vars

----------------------------------------------------------------------------
(* A SpatialHash filled by insert() and emptied by clear() *)

CellSizeChoices == {2, 3}

IdChoices == {0, 1, 2}

HashBoxes ==
    {AABB(Vec2(x[1], y[1]), Vec2(x[2], y[2])) :
        x \in {<<-3, -1>>, <<-1, 1>>, <<1, 5>>, <<4, 4>>},
        y \in {<<0, 1>>, <<1, 3>>, <<4, 5>>}}

InitHash ==
    /\ \E cell_size \in CellSizeChoices : sh = SpatialHashNew(cell_size)
    /\ IdleLoop
    /\ IdlePhysics
    /\ IdleFixed
    /\ IdleTimer
    /\ IdleResolve
    /\ IdleNarrow
    /\ IdleSweep
    /\ IdlePhase
    /\ IdleLate

\* hash.insert(id, &aabb)
HashInsert(id, aabb) ==
    /\ Len(sh.inserted) < MaxShapes
    /\ sh' = SpatialInsert(sh, id, aabb)
    /\ UNCHANGED <<loopVars, physVars, fpVars, timerVars, resolveVars, narrowVars, sweepVars,
                   phaseVars, lateVars>>

\* hash.clear()
HashClear ==
    /\ sh.inserted # << >>
    /\ sh' = SpatialClear(sh)
    /\ UNCHANGED <<loopVars, physVars, fpVars, timerVars, resolveVars, narrowVars, sweepVars,
                   phaseVars, lateVars>>

NextHash ==
    \/ \E id \in IdChoices, aabb \in HashBoxes : HashInsert(id, aabb)
    \/ HashClear

SpecHash == InitHash /\ [][NextHash]_vars

----------------------------------------------------------------------------
(* A SweepAndPrune rebuilt by update() from a list of shapes *)

SweepBoxes ==
    {AABB(Vec2(x[1], y[1]), Vec2(x[2], y[2])) :
        x \in {<<0, 1>>, <<1, 2>>, <<0, 3>>, <<2, 2>>, <<4, 5>>},
        y \in {<<0, 1>>, <<1, 2>>}}

\* the lists of n shapes
RECURSIVE ShapeLists(_)
ShapeLists(n) ==
    IF n = 0 THEN {<< >>}
    ELSE {Append(l, <<id, aabb>>) :
              l \in ShapeLists(n - 1), id \in IdChoices, aabb \in SweepBoxes}

InitSweep ==
    /\ sap = SweepAndPruneNew
    /\ IdleLoop
    /\ IdlePhysics
    /\ IdleFixed
    /\ IdleTimer
    /\ IdleResolve
    /\ IdleNarrow
    /\ IdleHash
    /\ IdlePhase
    /\ IdleLate

\* sap.update(&aabbs); a run is followed until a list of two or more shapes
\* has been handed over
SweepUpdate(aabbs) ==
    /\ Len(sap.shapes) <= 1
    /\ sap' = SapUpdate(aabbs)
    /\ UNCHANGED <<loopVars, physVars, fpVars, timerVars, resolveVars, narrowVars,
                   hashVars, phaseVars, lateVars>>

NextSweep ==
    \E n \in 1..MaxShapes : \E aabbs \in ShapeLists(n) : SweepUpdate(aabbs)

SpecSweep == InitSweep /\ [][NextSweep]_vars

----------------------------------------------------------------------------
(* A world of two bodies on the X axis, with PhysicsWorld::step followed    *)
(* phase by phase.  A contact of coincident centres (normal Vec2::UP)      *)
(* moves the bodies off the axis; an oblique contact is then computed with *)
(* the truncating FDiv and ISqrt.                                          *)

WorldVelocities == {ZERO, Vec2(10, 0), Vec2(-10, 0)}

\* the first body: static (possibly with a velocity and an acceleration set
\* through its public fields) or of mass 1
FirstBodies ==
    {[StaticBody(ZERO, v, 1) EXCEPT !.acceleration = a] :
        v \in {ZERO, Vec2(10, 0)}, a \in {ZERO, Vec2(1, 0)}}
    \cup {NewBody(ZERO, v, e) : v \in WorldVelocities, e \in RestitutionChoices}

\* the second body: static or of mass 0.5, at a distance of 5, 15 or 30
SecondBodies ==
    {[StaticBody(Vec2(x, 0), v, 1) EXCEPT !.acceleration = a] :
        x \in {5, 15, 30}, v \in {ZERO, Vec2(10, 0)}, a \in {ZERO, Vec2(1, 0)}}
    \cup {[NewBody(Vec2(x, 0), v, e) EXCEPT !.inv_mass = 2] :
              x \in {5, 15, 30}, v \in WorldVelocities, e \in RestitutionChoices}

WorldGravities == {ZERO, Vec2(5, 0)}

WorldIterations == {0, 1, 2}

InitWorld ==
    /\ \E a \in FirstBodies, b \in SecondBodies, g \in WorldGravities,
          i \in WorldIterations, s \in SubstepChoices :
          world = AddBody(AddBody(WithConfig([gravity |-> g, iterations |-> i,
                                              substeps |-> s]), a), b)
    /\ body0 = NewBody(ZERO, ZERO, 0)
    /\ IdlePhase
    /\ IdleLoop
    /\ IdleFixed
    /\ IdleTimer
    /\ IdleResolve
    /\ IdleNarrow
    /\ IdleHash
    /\ IdleSweep
    /\ IdleLate

\* where step() goes once the solver loop of a sub-step is over
AfterSolver(w, ph) ==
    IF ph.substep + 1 < w.config.substeps
    THEN [ph EXCEPT !.pc = "gravity", !.substep = @ + 1, !.iteration = 0]
    ELSE [ph EXCEPT !.pc = "idle", !.substep = 0, !.iteration = 0]

\* the ghost count of completed step() calls
CountStep(w, ph) == IF ph.pc = "idle" THEN [w EXCEPT !.steps = @ + 1] ELSE w

\* world.step() is called: dt is computed and the sub-step loop entered
StepBegin ==
    /\ phase.pc = "idle"
    /\ world.steps < MaxWorldSteps
    /\ phase' = [pc |-> "gravity", substep |-> 0, iteration |-> 0, start |-> world]
    /\ UNCHANGED <<world, body0, loopVars, fpVars, timerVars, resolveVars, narrowVars,
                   hashVars, sweepVars, lateVars>>

\* for body in &mut self.bodies { if !body.is_static() { acceleration = gravity } }
PhaseGravity ==
    /\ phase.pc = "gravity"
    /\ world' = [world EXCEPT !.bodies = ApplyGravity(@, world.config.gravity)]
    /\ phase' = [phase EXCEPT !.pc = "integration"]
    /\ UNCHANGED <<body0, loopVars, fpVars, timerVars, resolveVars, narrowVars,
                   hashVars, sweepVars, lateVars>>

\* integrate_bodies(&mut self.bodies, dt)
PhaseIntegration ==
    /\ phase.pc = "integration"
    /\ world' = [world EXCEPT !.bodies = IntegrateBodies(@, StepDt(world)),
                              !.sim_time = @ + StepDt(world)]
    /\ phase' = [phase EXCEPT !.pc = "narrow_phase"]
    /\ UNCHANGED <<body0, loopVars, fpVars, timerVars, resolveVars, narrowVars,
                   hashVars, sweepVars, lateVars>>

\* self.contacts.clear(); detect_collisions(&self.bodies, &mut self.contacts)
PhaseNarrow ==
    /\ phase.pc = "narrow_phase"
    /\ LET ph == IF world.config.iterations > 0
                 THEN [phase EXCEPT !.pc = "solver", !.iteration = 0]
                 ELSE AfterSolver(world, phase)
       IN  /\ phase' = ph
           /\ world' = CountStep([world EXCEPT !.contacts = DetectCollisions(world.bodies)],
                                 ph)
    /\ UNCHANGED <<body0, loopVars, fpVars, timerVars, resolveVars, narrowVars,
                   hashVars, sweepVars, lateVars>>

\* one pass of for _ in 0..self.config.iterations { resolve_contacts(..) }
PhaseSolver ==
    /\ phase.pc = "solver"
    /\ LET ph == IF phase.iteration + 1 < world.config.iterations
                 THEN [phase EXCEPT !.iteration = @ + 1]
                 ELSE AfterSolver(world, phase)
       IN  /\ phase' = ph
           /\ world' = CountStep([world EXCEPT
                                    !.bodies = ResolveContacts(@, world.contacts)],
                                 ph)
    /\ UNCHANGED <<body0, loopVars, fpVars, timerVars, resolveVars, narrowVars,
                   hashVars, sweepVars, lateVars>>

NextWorld ==
    \/ StepBegin
    \/ PhaseGravity
    \/ PhaseIntegration
    \/ PhaseNarrow
    \/ PhaseSolver

SpecWorld == InitWorld /\ [][NextWorld]_vars

----------------------------------------------------------------------------
(* The integrators called directly on a dynamic and a static body, with a  *)
(* host that sets an acceleration between calls                            *)

InitIntegrate ==
    /\ \E v \in VelocityChoices, p \in PositionChoices, a \in {ZERO, Vec2(1, 0)},
          s \in SubstepChoices :
          LET d == NewBody(p, v, 1)
              st == [StaticBody(Vec2(3, 4), v, 1) EXCEPT !.acceleration = a]
              prev == <<VSub(p, VScale(v, SixtiethUnits \div s)), ZERO>>
          IN  ig = [bodies |-> <<d, st>>, prev_positions |-> prev,
                    dt |-> SixtiethUnits \div s,
                    before |-> [bodies |-> <<d, st>>, prev_positions |-> prev],
                    op |-> "none", steps |-> 0]
    /\ IdleLoop
    /\ IdlePhysics
    /\ IdleFixed
    /\ IdleTimer
    /\ IdleResolve
    /\ IdleNarrow
    /\ IdleHash
    /\ IdleSweep
    /\ IdlePhase
    /\ IdleEcs

\* body.acceleration = a, written by the host before a call
ApplyForce(a) ==
    /\ ig.steps < MaxIntegrations
    /\ ig.op # "force"
    /\ ig' = [ig EXCEPT !.bodies[1].acceleration = a, !.op = "force"]
    /\ UNCHANGED <<loopVars, physVars, fpVars, timerVars, resolveVars, narrowVars,
                   hashVars, sweepVars, phaseVars, ecsVars>>

\* integrate_bodies(&mut bodies, dt)
IntegrateEuler ==
    /\ ig.steps < MaxIntegrations
    /\ ig' = [ig EXCEPT
                !.bodies = IntegrateBodies(ig.bodies, ig.dt),
                !.before = [bodies |-> ig.bodies, prev_positions |-> ig.prev_positions],
                !.op = "euler",
                !.steps = @ + 1]
    /\ UNCHANGED <<loopVars, physVars, fpVars, timerVars, resolveVars, narrowVars,
                   hashVars, sweepVars, phaseVars, ecsVars>>

\* integrate_verlet(&mut bodies, &mut prev_positions, dt)
IntegrateVerletStep ==
    /\ ig.steps < MaxIntegrations
    /\ LET r == IntegrateVerlet(ig.bodies, ig.prev_positions, ig.dt)
       IN  ig' = [ig EXCEPT
                    !.bodies = r.bodies,
                    !.prev_positions = r.prev_positions,
                    !.before = [bodies |-> ig.bodies,
                                prev_positions |-> ig.prev_positions],
                    !.op = "verlet",
                    !.steps = @ + 1]
    /\ UNCHANGED <<loopVars, physVars, fpVars, timerVars, resolveVars, narrowVars,
                   hashVars, sweepVars, phaseVars, ecsVars>>

NextIntegrate ==
    \/ \E a \in AccelerationChoices : ApplyForce(a)
    \/ IntegrateEuler
    \/ IntegrateVerletStep

SpecIntegrate == InitIntegrate /\ [][NextIntegrate]_vars

----------------------------------------------------------------------------
(* ecs::World: spawn, despawn of any handle handed out so far, clear *)

InitEcs ==
    /\ ecs = EcsWorldNew
    /\ IdleLoop
    /\ IdlePhysics
    /\ IdleFixed
    /\ IdleTimer
    /\ IdleResolve
    /\ IdleNarrow
    /\ IdleHash
    /\ IdleSweep
    /\ IdlePhase
    /\ IdleIntegrate

\* world.spawn(components)
Spawn ==
    /\ ecs.inner.issued < MaxSpawns
    /\ ecs' = EcsSpawn(ecs)
    /\ UNCHANGED <<loopVars, physVars, fpVars, timerVars, resolveVars, narrowVars,
                   hashVars, sweepVars, phaseVars, integrateVars>>

\* world.despawn(entity), the entity live or already despawned
Despawn(entity) ==
    /\ entity <= ecs.inner.issued
    /\ ecs' = EcsDespawn(ecs, entity)
    /\ UNCHANGED <<loopVars, physVars, fpVars, timerVars, resolveVars, narrowVars,
                   hashVars, sweepVars, phaseVars, integrateVars>>

\* world.clear()
Clear ==
    /\ ecs' = EcsClear(ecs)
    /\ UNCHANGED <<loopVars, physVars, fpVars, timerVars, resolveVars, narrowVars,
                   hashVars, sweepVars, phaseVars, integrateVars>>

NextEcs ==
    \/ Spawn
    \/ \E entity \in 1..MaxSpawns : Despawn(entity)
    \/ Clear

SpecEcs == InitEcs /\ [][NextEcs]_vars

----------------------------------------------------------------------------
(* FixedPoint: two operands, one operation applied to them *)

InitFixed ==
    /\ fp \in [a : RawPatterns, b : RawPatterns, op : {"none"}, result : {Value(0)}]
    /\ IdleLoop
    /\ IdlePhysics
    /\ IdleTimer
    /\ IdleRest

Apply(op, result) ==
    /\ fp.op = "none"
    /\ fp' = [fp EXCEPT !.op = op, !.result = result]
    /\ UNCHANGED <<loopVars, physVars, timerVars, restVars>>

DoAdd == Apply("add", Value(FpAdd(fp.a, fp.b)))

DoSub == Apply("sub", Value(FpSub(fp.a, fp.b)))

DoMul == Apply("mul", Value(FpMulFull(fp.a, fp.b)))

DoDiv == Apply("div", Value(FpDivFull(fp.a, fp.b)))

DoNeg == \E r \in FpNeg(fp.a) : Apply("neg", r)

\* (a + b) - b
DoAddSub == Apply("addsub", Value(FpSub(FpAdd(fp.a, fp.b), fp.b)))

\* a * ONE
DoMulOne == Apply("mulone", Value(FpMulFull(fp.a, FpONE)))

NextFixed ==
    \/ DoAdd
    \/ DoSub
    \/ DoMul
    \/ DoDiv
    \/ DoNeg
    \/ DoAddSub
    \/ DoMulOne

SpecFixed == InitFixed /\ [][NextFixed]_vars

----------------------------------------------------------------------------
(* The Timer: calibrated at construction, then started and read *)

InitTimer ==
    /\ \E cycles \in CycleReadings, ns \in NsReadings : timer = TimerNew(cycles, ns)
    /\ IdleLoop
    /\ IdlePhysics
    /\ IdleFixed
    /\ IdleRest

\* timer.start() with the counter reading `cycles`
TimerStart(cycles) ==
    /\ ~timer.elapsed.panic
    /\ timer' = [timer EXCEPT !.start_cycles = cycles]
    /\ UNCHANGED <<loopVars, physVars, fpVars, restVars>>

\* timer.elapsed_ns() with the counter reading `cycles`
TimerElapsedNs(cycles) ==
    /\ ~timer.elapsed.panic
    /\ timer' = [timer EXCEPT !.elapsed = ElapsedNsOf(timer, cycles)]
    /\ UNCHANGED <<loopVars, physVars, fpVars, restVars>>

NextTimer ==
    \/ \E cycles \in CycleReadings : TimerStart(cycles)
    \/ \E cycles \in CycleReadings : TimerElapsedNs(cycles)

SpecTimer == InitTimer /\ [][NextTimer]_vars

----------------------------------------------------------------------------
(* Claims about the scheduler (SpecLoop) *)

\* C1: for every tick() with fixed_dt > 0, with A the accumulator after the
\* elapsed time is added, fixed_updates = min(max_frame_skip, floor(A / fixed_dt));
\* fixed_updates never exceeds max_frame_skip; Engine::update runs that many
\* physics steps, bounded the same way.
C1_FixedUpdatesCapped ==
    [][ /\ (gl'.frame = gl.frame + 1) =>
            /\ ft'.fixed_updates <= gl.max_frame_skip
            /\ gl.fixed_dt > 0 =>
                 ft'.fixed_updates =
                    Min(gl.max_frame_skip,
                        (gl.accumulator + ft'.delta) \div gl.fixed_dt)
        /\ (engine'.frame_count = engine.frame_count + 1) =>
            /\ engine'.physics.steps - engine.physics.steps
                  <= engine.config.max_frame_skip
            /\ engine.config.fixed_timestep > 0 =>
                 engine'.physics.steps - engine.physics.steps =
                    Min(engine.config.max_frame_skip,
                        (engine.accumulator + ft.delta)
                            \div engine.config.fixed_timestep)
      ]_vars

\* fixed_dt = 1/60 s, cap 5, ten seconds elapsed: 5 fixed updates, 5 physics steps
C1_Witness ==
    /\ ft.fixed_dt = SixtiethUnits
    /\ gl.max_frame_skip = DefaultMaxFrameSkip
    /\ ft.delta = TenSeconds
    /\ ft.fixed_updates = DefaultMaxFrameSkip
    /\ engine.frame_count = gl.frame
    /\ engine.physics.steps = DefaultMaxFrameSkip

\* The elapsed time so far is exactly N fixed steps
WholeSteps == gl.fixed_dt > 0 /\ elapsed_total % gl.fixed_dt = 0

StepsElapsed == elapsed_total \div gl.fixed_dt

\* C2 (as stated): increments summing to exactly N * fixed_dt leave the tick
\* counter at exactly N after the last call, however they are chunked.
C2_TickCountIsN == WholeSteps => gl.tick = StepsElapsed

\* C2 (amended): increments summing to exactly N * fixed_dt leave the tick
\* counter at N minus the whole steps still held in the accumulator, which is
\* exactly N whenever the last call returned fewer than max_frame_skip updates.
C2_TickCountIsNUnlessCapped ==
    WholeSteps =>
        /\ gl.tick = StepsElapsed - (gl.accumulator \div gl.fixed_dt)
        /\ ft.fixed_updates < gl.max_frame_skip => gl.tick = StepsElapsed

\* Three calls, chunks that are not whole steps, N = 3 reached below the cap
C2_Witness ==
    /\ WholeSteps
    /\ gl.frame = 3
    /\ ft.delta % gl.fixed_dt # 0
    /\ ft.fixed_updates < gl.max_frame_skip
    /\ gl.tick = 3
    /\ StepsElapsed = 3

\* C3: when a tick() reaches the cap the excess time is dropped: a following
\* tick() with no new elapsed time returns fixed_updates = 0.
C3_ExcessDropped ==
    [][ ( /\ gl.fixed_dt > 0
          /\ gl.frame > 0
          /\ ft.fixed_updates = gl.max_frame_skip
          /\ gl'.frame = gl.frame + 1
          /\ ft'.delta = 0 )
        => ft'.fixed_updates = 0 ]_vars

\* C4: no GameLoop with fixed_dt <= 0 can be created and then ticked.
C4_NonPositiveStepRejected == gl.frame > 0 => gl.fixed_dt > 0

\* C5: once the host loop has run the step() calls a tick() asked for, the
\* simulated time advanced is the tick counter times the configured fixed_dt.
C5_SimTimeIsTicksTimesFixedDt ==
    (gl.fixed_dt > 0 /\ pending = 0) => world.sim_time = gl.tick * gl.fixed_dt

----------------------------------------------------------------------------
(* Claims about FixedPoint (SpecFixed) *)

\* C6: for all raw patterns a and b, (a + b) - b = a under wrapping arithmetic,
\* and a * ONE = a.
C6_AddSubAndMulOne ==
    /\ fp.op = "addsub" => fp.result = Value(fp.a)
    /\ fp.op = "mulone" => fp.result = Value(fp.a)

\* (a + b) - b where a + b left the range and wrapped
C6_Witness ==
    /\ fp.op = "addsub"
    /\ fp.a + fp.b > RawMax
    /\ fp.result = Value(fp.a)

\* q is n / d truncated toward zero: the remainder is smaller than the divisor
\* and, unless zero, has the sign of the dividend
IsTruncatedQuotient(q, n, d) ==
    LET r == n - q * d
    IN  /\ Abs(r) < Abs(d)
        /\ r = 0 \/ ((r < 0) = (n < 0))

\* raw is the two's-complement reading of the low RawBits bits of x
IsLowBits(raw, x) == raw \in RawPatterns /\ (x - raw) % (2 ^ RawBits) = 0

\* C7: division never fails; by the zero value it gives the zero value; by a
\* nonzero b it gives the low 32 bits of the truncated quotient (a * 2^16) / b.
C7_DivisionTotal ==
    fp.op = "div" =>
        /\ ~fp.result.panic
        /\ fp.b = 0 => fp.result.raw = 0
        /\ fp.b # 0 =>
             \E q \in {(fp.a * SCALE) \div fp.b, (fp.a * SCALE) \div fp.b + 1} :
                /\ IsTruncatedQuotient(q, fp.a * SCALE, fp.b)
                /\ IsLowBits(fp.result.raw, q)

\* a nonzero value divided by the zero value
C7_Witness ==
    /\ fp.op = "div"
    /\ fp.a # 0
    /\ fp.b = 0
    /\ fp.result = Value(0)

\* C8: add, sub, mul, div and negate never fail, for any operands, the negation
\* of the minimum value included.
C8_ArithmeticNeverFails == ~fp.result.panic

----------------------------------------------------------------------------
(* Claims about the Timer (SpecTimer) *)

\* C9: whatever the calibration measured, the stored frequency is nonzero, so
\* that the cycles-to-nanoseconds conversion of elapsed_ns() never divides by
\* zero (stated on the conversion: no elapsed_ns() call fails).
C9_ConversionNeverDividesByZero == ~timer.elapsed.panic

----------------------------------------------------------------------------
(* Claims about integration (SpecPhysics) *)

\* sum over k = 1..n of (v0 + g * k * dt)
RECURSIVE SumOfVelocities(_, _, _, _)
SumOfVelocities(v0, g, dt, n) ==
    IF n = 0 THEN ZERO
    ELSE VAdd(SumOfVelocities(v0, g, dt, n - 1), VAdd(v0, VScale(g, n * dt)))

\* C10: a single dynamic body under gravity g, after n integration steps of
\* duration dt (n calls of step() when substeps = 1; calls * substeps steps of
\* 1/60/substeps otherwise), has velocity v0 + g*n*dt and position
\* p0 + dt * sum over k = 1..n of (v0 + g*k*dt).
C10_SemiImplicitClosedForm ==
    (Len(world.bodies) = 1 /\ ~IsStatic(body0)) =>
        LET n == world.steps * world.config.substeps
            dt == StepDt(world)
            g == world.config.gravity
        IN  /\ world.bodies[1].velocity = VAdd(body0.velocity, VScale(g, n * dt))
            /\ world.bodies[1].position =
                  VAdd(body0.position,
                       VScale(SumOfVelocities(body0.velocity, g, dt, n), dt))

\* three calls of step() with substeps = 1 on a moving body under gravity
C10_Witness ==
    /\ ~IsStatic(body0)
    /\ world.config.substeps = 1
    /\ world.steps = 3
    /\ world.config.gravity = Vec2(1, 2)
    /\ body0.velocity = Vec2(1, -2)
    /\ world.bodies[1].velocity = Vec2(7, 10)

\* C11: an acceleration accumulated on a dynamic body before step() is
\* integrated together with gravity: with substeps = 1 the velocity change of
\* the body over the step is (gravity + accumulated acceleration) * dt.
C11_ExternalAccelerationIntegrated ==
    [][(/\ world'.steps = world.steps + 1
        /\ world.config.substeps = 1
        /\ ~IsStatic(world.bodies[1]))
       => VSub(world'.bodies[1].velocity, world.bodies[1].velocity) =
              VScale(VAdd(world.config.gravity, world.bodies[1].acceleration),
                     StepDt(world))]_vars

----------------------------------------------------------------------------
(* Claims about the contact solver (SpecResolve) *)

\* velocity of b relative to a along the normal of contact c
NormalVelocity(bodies, c) ==
    Dot(VSub(bodies[c.body_b].velocity, bodies[c.body_a].velocity), c.normal)

\* sum of mass * velocity of the two bodies of c, times inv_mass_a * inv_mass_b
ScaledMomentum(bodies, c) ==
    VAdd(VScale(bodies[c.body_a].velocity, bodies[c.body_b].inv_mass),
         VScale(bodies[c.body_b].velocity, bodies[c.body_a].inv_mass))

\* C12: for a contact between two dynamic bodies approaching along the normal,
\* one resolve_contacts pass leaves the relative normal velocity at -e times
\* its previous value, e the smaller restitution, and the total momentum
\* unchanged; with unit masses, restitution 1 and equal and opposite speeds
\* along the normal both velocities are exactly negated.
C12_ImpulseReflectsAndConservesMomentum ==
    LET c == rc.contacts[1]
        a == rc.before[1]
        b == rc.before[2]
        e == IF a.restitution <= b.restitution THEN a.restitution ELSE b.restitution
    IN  (/\ rc.passes > 0
         /\ ~IsStatic(a) /\ ~IsStatic(b)
         /\ NormalVelocity(rc.before, c) < 0)
        => /\ NormalVelocity(rc.bodies, c) = -e * NormalVelocity(rc.before, c)
           /\ ScaledMomentum(rc.bodies, c) = ScaledMomentum(rc.before, c)
           /\ (/\ a.inv_mass = 1 /\ b.inv_mass = 1
               /\ a.restitution = 1 /\ b.restitution = 1
               /\ a.velocity = VScale(b.velocity, -1))
              => /\ rc.bodies[1].velocity = VScale(a.velocity, -1)
                 /\ rc.bodies[2].velocity = VScale(b.velocity, -1)

\* two unit masses of restitution 1 meeting head-on, after one pass
C12_Witness ==
    /\ rc.passes = 1
    /\ rc.contacts[1].normal = Vec2(1, 0)
    /\ rc.before[1].inv_mass = 1 /\ rc.before[2].inv_mass = 1
    /\ rc.before[1].restitution = 1 /\ rc.before[2].restitution = 1
    /\ rc.before[1].velocity = Vec2(SpeedGrain, 0)
    /\ rc.before[2].velocity = Vec2(-SpeedGrain, 0)
    /\ rc.bodies[1].velocity = Vec2(-SpeedGrain, 0)
    /\ rc.bodies[2].velocity = Vec2(SpeedGrain, 0)

----------------------------------------------------------------------------
(* Claims about the narrow phase (SpecNarrow) *)

\* distance between two centres that differ along one axis only
AxisDistance(a, b) == Abs(b.x - a.x) + Abs(b.y - a.y)

Sign(x) == IF x > 0 THEN 1 ELSE IF x < 0 THEN -1 ELSE 0

\* C13: circle_vs_circle returns None exactly when the centre distance is at
\* least the sum of the radii; otherwise the penetration is the sum of the
\* radii minus the distance and the normal is the unit vector from the first
\* centre to the second, or (0, -1) when the centres coincide.
C13_CircleContact ==
    (np.kind = "circle" /\ np.applied) =>
        LET dist == AxisDistance(np.a.center, np.b.center)
            radii_sum == np.a.radius + np.b.radius
        IN  /\ np.result.none <=> dist >= radii_sum
            /\ ~np.result.none =>
                  /\ np.result.penetration = radii_sum - dist
                  /\ np.result.normal =
                        IF dist = 0 THEN Vec2(0, -1)
                        ELSE Vec2(Sign(np.b.center.x - np.a.center.x),
                                  Sign(np.b.center.y - np.a.center.y))

\* radius-5 circles at (0,0) and (8,0): penetration 2, normal (1,0)
C13_Witness ==
    /\ np.kind = "circle" /\ np.applied
    /\ np.a = Circle(ZERO, 5)
    /\ np.b = Circle(Vec2(8, 0), 5)
    /\ ~np.result.none
    /\ np.result.penetration = 2
    /\ np.result.normal = Vec2(1, 0)

\* the interiors of the boxes meet
Overlapping(a, b) ==
    /\ a.min.x < b.max.x /\ b.min.x < a.max.x
    /\ a.min.y < b.max.y /\ b.min.y < a.max.y

\* extent shared by the intervals [lo1, hi1] and [lo2, hi2], measured from the
\* nearer pair of opposite faces
AxisOverlap(lo1, hi1, lo2, hi2) ==
    IF hi1 - lo2 <= hi2 - lo1 THEN hi1 - lo2 ELSE hi2 - lo1

OverlapX(a, b) == AxisOverlap(a.min.x, a.max.x, b.min.x, b.max.x)

OverlapY(a, b) == AxisOverlap(a.min.y, a.max.y, b.min.y, b.max.y)

AxisUnit(n) == n \in {Vec2(1, 0), Vec2(-1, 0), Vec2(0, 1), Vec2(0, -1)}

\* the overlap of a and b along the axis of n
OverlapAlong(n, a, b) == IF n.y = 0 THEN OverlapX(a, b) ELSE OverlapY(a, b)

\* offset of the centre of b from the centre of a (doubled)
CenterOffset2(a, b) == VSub(VAdd(b.min, b.max), VAdd(a.min, a.max))

C15_TieFavorsX ==
    (np.kind = "aabb" /\ np.applied /\ ~np.result.none) =>
        LET ox == OverlapX(np.a, np.b)
            oy == OverlapY(np.a, np.b)
        IN  /\ ox < oy => np.result.normal.y = 0
            /\ oy < ox => np.result.normal.x = 0
            /\ ox = oy => np.result.normal.y = 0

\* C15 amended: aabb_vs_aabb resolves along the axis of the smaller overlap,
\* and along Y when the two overlaps are equal.
C15_TieFavorsY ==
    (np.kind = "aabb" /\ np.applied /\ ~np.result.none) =>
        LET ox == OverlapX(np.a, np.b)
            oy == OverlapY(np.a, np.b)
        IN  /\ ox < oy => np.result.normal.y = 0 /\ np.result.penetration = ox
            /\ oy < ox => np.result.normal.x = 0 /\ np.result.penetration = oy
            /\ ox = oy => np.result.normal.x = 0 /\ np.result.penetration = oy

\* two 4x4 boxes offset by (2,2): both overlaps are 2, the contact is along Y
C15_Witness ==
    /\ np.kind = "aabb" /\ np.applied
    /\ np.a = AABB(ZERO, Vec2(4, 4))
    /\ np.b = AABB(Vec2(2, 2), Vec2(6, 6))
    /\ ~np.result.none
    /\ np.result.normal = Vec2(0, 1)
    /\ np.result.penetration = 2

----------------------------------------------------------------------------
(* Claims about the SpatialHash (SpecHash) *)

CellGrid == {<<x, y>> : x \in -4..4, y \in -4..4}

\* the grid cells [x*s, (x+1)*s) x [y*s, (y+1)*s) that the box reaches
CellsOf(cell_size, aabb) ==
    {c \in CellGrid :
        /\ c[1] * cell_size <= aabb.max.x /\ aabb.min.x < (c[1] + 1) * cell_size
        /\ c[2] * cell_size <= aabb.max.y /\ aabb.min.y < (c[2] + 1) * cell_size}

IdPair(p, q) == IF p <= q THEN <<p, q>> ELSE <<q, p>>

Reported(pairs, p) == \E k \in 1..Len(pairs) : pairs[k] = p

\* C16: after inserting two shapes with different ids, get_pairs returns no
\* pair when they occupy disjoint sets of cells and exactly one pair
\* (min id, max id) when they share at least one cell, however many cells
\* they share and in whichever order they were inserted.
C16_OnePairPerSharingShapes ==
    (Len(sh.inserted) = 2 /\ sh.inserted[1][1] # sh.inserted[2][1]) =>
        LET shared == CellsOf(sh.cell_size, sh.inserted[1][2])
                        \cap CellsOf(sh.cell_size, sh.inserted[2][2])
        IN  SpatialGetPairs(sh) =
                IF shared = {} THEN << >>
                ELSE << IdPair(sh.inserted[1][1], sh.inserted[2][1]) >>

\* id 2 inserted before id 0, the two sharing several cells
C16_Witness ==
    /\ Len(sh.inserted) = 2
    /\ sh.inserted[1][1] = 2
    /\ sh.inserted[2][1] = 0
    /\ Cardinality(CellsOf(sh.cell_size, sh.inserted[1][2])
                     \cap CellsOf(sh.cell_size, sh.inserted[2][2])) > 1
    /\ SpatialGetPairs(sh) = << <<0, 2>> >>

DistinctIds(inserted) ==
    \A i, j \in 1..Len(inserted) : i # j => inserted[i][1] # inserted[j][1]

\* C17: for shapes with distinct ids and well-formed boxes inserted since the
\* last clear(), every pair whose boxes intersect appears in get_pairs.
C17_HashNoFalseNegatives ==
    DistinctIds(sh.inserted) =>
        \A i, j \in 1..Len(sh.inserted) :
            (i < j /\ Intersects(sh.inserted[i][2], sh.inserted[j][2])) =>
                Reported(SpatialGetPairs(sh),
                         IdPair(sh.inserted[i][1], sh.inserted[j][1]))

\* two boxes that only touch at a corner, in different cells by their min corners
C17_Witness ==
    /\ Len(sh.inserted) = 2
    /\ sh.cell_size = 2
    /\ sh.inserted[1] = <<1, AABB(Vec2(-3, 0), Vec2(-1, 1))>>
    /\ sh.inserted[2] = <<0, AABB(Vec2(-1, 1), Vec2(1, 3))>>
    /\ Reported(SpatialGetPairs(sh), <<0, 1>>)

----------------------------------------------------------------------------
(* Claims about SweepAndPrune (SpecSweep) *)

\* C18: after update() with any list of shapes with distinct ids, in any
\* order, every pair whose boxes intersect by AABB::intersects, touching
\* included, is reported by get_pairs.
C18_SweepNoFalseNegatives ==
    DistinctIds(sap.shapes) =>
        \A i, j \in 1..Len(sap.shapes) :
            (i < j /\ Intersects(sap.shapes[i][2], sap.shapes[j][2])) =>
                Reported(SapGetPairs(sap),
                         IdPair(sap.shapes[i][1], sap.shapes[j][1]))

----------------------------------------------------------------------------
(* Claims about PhysicsWorld::step followed phase by phase (SpecWorld) *)

\* The phases of one step() call compose to StepWorld: whenever a call has
\* returned, the world is the one StepWorld gives for the world it found.
StepIsItsPhases ==
    (phase.pc = "idle" /\ world.steps > 0) => world = StepWorld(phase.start)

\* C19: a static body (inv_mass 0) is never changed by step(): its position,
\* velocity and acceleration stay equal across every phase of every step,
\* whatever the other body is and whatever contacts it is part of.
C19_StaticBodiesUnchanged ==
    [][\A i \in DOMAIN world.bodies :
          IsStatic(world.bodies[i]) =>
              /\ world'.bodies[i].position = world.bodies[i].position
              /\ world'.bodies[i].velocity = world.bodies[i].velocity
              /\ world'.bodies[i].acceleration = world.bodies[i].acceleration]_vars

\* two step() calls done; a static body with an acceleration of its own is
\* in contact with a dynamic one that gravity drives into it
\* and the solver has pushed back
C19_Witness ==
    /\ phase.pc = "idle"
    /\ world.steps = 2
    /\ world.config.iterations = 2
    /\ world.config.gravity = Vec2(5, 0)
    /\ ~IsStatic(world.bodies[1])
    /\ IsStatic(world.bodies[2])
    /\ world.bodies[2].velocity = ZERO
    /\ world.bodies[2].acceleration = Vec2(1, 0)
    /\ world.bodies[2].position = Vec2(15, 0)
    /\ world.contacts # << >>
    /\ world.bodies[1].velocity.x < phase.start.bodies[1].velocity.x

\* the order of the phases as the claim gives it
ClaimedSuccessors(pc) ==
    CASE pc = "idle" -> {"gravity"}
      [] pc = "gravity" -> {"integration"}
      [] pc = "integration" -> {"broad_phase"}
      [] pc = "broad_phase" -> {"narrow_phase"}
      [] pc = "narrow_phase" -> {"solver", "gravity", "idle"}
      [] pc = "solver" -> {"solver", "gravity", "idle"}

\* C20: within every step and every sub-step the phases run in the fixed
\* order gravity, integration, broad phase, narrow phase, then the solver
\* iterations, and a step begins only when the previous one has run all of
\* its solver iterations.
C20_PhasesInClaimedOrder ==
    [][/\ phase'.pc \in ClaimedSuccessors(phase.pc)
       /\ phase'.pc = "gravity" =>
             \/ phase.pc = "idle"
             \/ phase.pc = "narrow_phase" /\ world.config.iterations = 0
             \/ phase.pc = "solver" /\ phase.iteration + 1 = world.config.iterations]_phase

\* The order the code has: contact detection follows integration directly.
CodeSuccessors(pc) ==
    CASE pc = "idle" -> {"gravity"}
      [] pc = "gravity" -> {"integration"}
      [] pc = "integration" -> {"narrow_phase"}
      [] pc = "narrow_phase" -> {"solver", "gravity", "idle"}
      [] pc = "solver" -> {"solver", "gravity", "idle"}

PhasesInCodeOrder ==
    [][/\ phase'.pc \in CodeSuccessors(phase.pc)
       /\ phase'.pc = "gravity" =>
             \/ phase.pc = "idle"
             \/ phase.pc = "narrow_phase" /\ world.config.iterations = 0
             \/ phase.pc = "solver" /\ phase.iteration + 1 = world.config.iterations]_phase

----------------------------------------------------------------------------
(* Claims about the integrators called directly (SpecIntegrate) *)

\* C21: after each integration step (semi-implicit Euler or Verlet) the
\* acceleration of every dynamic body is zero, so an acceleration present in
\* one step has no effect on a later one unless it is applied again: a step
\* that finds the acceleration as the previous step left it keeps the
\* velocity (Euler) or repeats the last displacement (Verlet).
C21_AccelerationClearedEachStep ==
    ig.op \in {"euler", "verlet"} =>
        \A i \in DOMAIN ig.bodies :
            ~IsStatic(ig.bodies[i]) =>
                LET b0 == ig.before.bodies[i]
                    b1 == ig.bodies[i]
                IN  /\ b1.acceleration = ZERO
                    /\ (ig.op = "euler" /\ b0.acceleration = ZERO) =>
                          /\ b1.velocity = b0.velocity
                          /\ b1.position = VAdd(b0.position, VScale(b0.velocity, ig.dt))
                    /\ (ig.op = "verlet" /\ b0.acceleration = ZERO) =>
                          VSub(b1.position, b0.position) =
                              VSub(b0.position, ig.before.prev_positions[i])

\* an acceleration of (1,0) went into the first Euler step; the second one,
\* with nothing applied again, keeps the velocity the first one reached
C21_Witness ==
    /\ ig.op = "euler"
    /\ ig.steps = 2
    /\ ig.dt = 1
    /\ ig.before.bodies[1].acceleration = ZERO
    /\ ig.before.bodies[1].velocity = Vec2(2, -2)
    /\ ig.bodies[1].velocity = Vec2(2, -2)
    /\ ig.bodies[1].acceleration = ZERO

----------------------------------------------------------------------------
(* Further claims about resolve_contacts (SpecResolve) *)

\* C22: resolve_contacts skips a contact whose two bodies are both static or
\* are separating along the normal (vel_along_normal > 0): the pass changes
\* neither the velocity nor the position of either body.
C22_SkippedContactChangesNothing ==
    LET c == rc.contacts[1]
        a == rc.before[1]
        b == rc.before[2]
    IN  (/\ rc.passes > 0
         /\ \/ a.inv_mass = 0 /\ b.inv_mass = 0
            \/ NormalVelocity(rc.before, c) > 0)
        => /\ rc.bodies[1].velocity = a.velocity
           /\ rc.bodies[1].position = a.position
           /\ rc.bodies[2].velocity = b.velocity
           /\ rc.bodies[2].position = b.position

\* a separating pair of dynamic bodies, after a pass
C22_Witness ==
    /\ rc.passes = 1
    /\ rc.contacts[1].normal = Vec2(1, 0)
    /\ rc.before[1].inv_mass = 1 /\ rc.before[2].inv_mass = 2
    /\ rc.before[1].velocity = Vec2(-SpeedGrain, 0)
    /\ rc.before[2].velocity = Vec2(SpeedGrain, 0)
    /\ rc.bodies = rc.before

\* C23: for a contact that is not skipped, one pass moves the two bodies
\* apart along the normal by 0.8 times the penetration in total, each body by
\* the share its inverse mass has in the sum of the two (a static body is not
\* moved).
C23_CorrectionSplitByInverseMass ==
    LET c == rc.contacts[1]
        a == rc.before[1]
        b == rc.before[2]
        inv_sum == a.inv_mass + b.inv_mass
        moved_a == VSub(rc.bodies[1].position, a.position)
        moved_b == VSub(rc.bodies[2].position, b.position)
    IN  (/\ rc.passes > 0
         /\ ~(a.inv_mass = 0 /\ b.inv_mass = 0)
         /\ NormalVelocity(rc.before, c) <= 0)
        => /\ VScale(VSub(moved_b, moved_a), 5) = VScale(c.normal, 4 * c.penetration)
           /\ VScale(moved_a, 5 * inv_sum) =
                  VScale(c.normal, -(4 * c.penetration * a.inv_mass))
           /\ VScale(moved_b, 5 * inv_sum) =
                  VScale(c.normal, 4 * c.penetration * b.inv_mass)

\* masses 1.0 and 0.5, penetration 15: the 12 units are split 4 to 8
C23_Witness ==
    /\ rc.passes = 1
    /\ rc.contacts[1].normal = Vec2(1, 0)
    /\ rc.contacts[1].penetration = DepthGrain
    /\ rc.before[1].inv_mass = 1 /\ rc.before[2].inv_mass = 2
    /\ rc.before[1].velocity = ZERO /\ rc.before[2].velocity = ZERO
    /\ rc.bodies[1].position = Vec2(-4, 0)
    /\ rc.bodies[2].position = Vec2(13, 0)

\* C28: the passes of one sub-step reuse the contact as it was detected: a
\* pair that is not skipped at any pass is pushed apart by the number of
\* passes times 0.8 times the penetration measured before the first pass.
C28_PassesReuseDetectedPenetration ==
    LET c == rc.contacts[1]
        gap_start == VSub(rc.start[2].position, rc.start[1].position)
        gap_now == VSub(rc.bodies[2].position, rc.bodies[1].position)
    IN  VScale(VSub(gap_now, gap_start), 5) =
            VScale(c.normal, 4 * c.penetration * rc.resolved)

\* restitution 0 and no relative velocity: both of two passes push the pair
C28_Witness ==
    /\ rc.passes = 2
    /\ rc.resolved = 2
    /\ rc.contacts[1].normal = Vec2(1, 0)
    /\ rc.contacts[1].penetration = DepthGrain
    /\ rc.start[1].restitution = 0 /\ rc.start[2].restitution = 0
    /\ rc.start[1].velocity = ZERO /\ rc.start[2].velocity = ZERO
    /\ rc.start[1].inv_mass = 1 /\ rc.start[2].inv_mass = 1
    /\ rc.bodies[2].position.x - rc.bodies[1].position.x = 5 + 24

----------------------------------------------------------------------------
(* Claim about the contact list of the world (SpecWorld) *)

\* the contacts are those of the positions: one per pair i < j closer than
\* the two radii, named (i, j), of positive penetration, and nothing else
ContactsMatch(contacts, bodies) ==
    /\ \A k \in DOMAIN contacts :
          /\ contacts[k].body_a \in DOMAIN bodies
          /\ contacts[k].body_b \in DOMAIN bodies
          /\ contacts[k].body_a < contacts[k].body_b
          /\ contacts[k].penetration > 0
    /\ \A i \in DOMAIN bodies, j \in DOMAIN bodies :
          i < j =>
              LET diff == VSub(bodies[j].position, bodies[i].position)
                  found == {k \in DOMAIN contacts :
                               contacts[k].body_a = i /\ contacts[k].body_b = j}
              IN  Cardinality(found) =
                      IF Dot(diff, diff) < (2 * Radius) * (2 * Radius) THEN 1 ELSE 0

----------------------------------------------------------------------------
(* Further claims about the game loop (SpecLoop) *)

\* C25: the interpolation returned by every tick() (accumulator / fixed_dt
\* once the fixed updates are counted) lies between 0.0 and 1.0, for every
\* sequence of elapsed times, those reaching the frame-skip cap included.
\* Stated for a positive fixed_dt, where the quotient is defined.
C25_InterpolationInUnitRange ==
    (gl.frame > 0 /\ ft.fixed_dt > 0)
        => /\ 0 <= ft.interpolation[1]
           /\ ft.interpolation[1] <= ft.interpolation[2]

----------------------------------------------------------------------------
(* Claim about SpatialHash under repeated ids (SpecHash) *)

\* C29: after any sequence of insert and clear calls, an id inserted more
\* than once without a clear included, every pair (a, b) of get_pairs has
\* a < b, the list is sorted without duplicates, and once cleared both
\* get_pairs and query return nothing.
C29_PairsStrictlyOrdered ==
    LET pairs == SpatialGetPairs(sh)
    IN  /\ \A k \in DOMAIN pairs : pairs[k][1] < pairs[k][2]
        /\ \A k \in DOMAIN pairs :
              k > 1 => PairLeq(pairs[k - 1], pairs[k]) /\ pairs[k - 1] # pairs[k]
        /\ sh.inserted = << >> =>
              /\ pairs = << >>
              /\ \A aabb \in HashBoxes : SpatialQuery(sh, aabb) = << >>

----------------------------------------------------------------------------
(* Claim about ecs::World (SpecEcs) *)

\* C30: after any sequence of spawn, despawn and clear calls, the despawn of
\* an entity already despawned included, entity_count() is the number of
\* live entities of the underlying store.
C30_EntityCountIsLiveCount == EntityCount(ecs) = Cardinality(ecs.inner.live)

====
